---- MODULE Spec2Model ----
(***************************************************************************)
(* The obfuscation job pipeline of src/routes.ts: startup (ensureTempDir,  *)
(* findLuaPath), and the POST /api/obfuscate handler, one process per      *)
(* request, interleaved at the handler's await points.  Strings are        *)
(* sequences of tokens; the empty sequence is the empty string.  The file  *)
(* system, the interpreter probes and the external tool are the            *)
(* environment: their outcomes are nondeterministic.                       *)
(***************************************************************************)
EXTENDS Integers, Sequences, FiniteSets, TLC

\* ---------------------------------------------------------------- bounds
\* Number of requests the service receives in one behaviour.
MaxRequests == 2

\* Number of unlink calls the file system refuses on a file that exists.
MaxFaults == 1

\* The handler invocations that can be in flight at the same time.
Jobs == {1, 2}

\* ------------------------------------------------------------- JS values
\* A JSON value of the request body: absent, a string or a number.
Undefined == [t |-> "undefined", s |-> <<>>, n |-> 0]
Str(s) == [t |-> "string", s |-> s, n |-> 0]
Num(n) == [t |-> "number", s |-> <<>>, n |-> n]

\* JavaScript truthiness of such a value (the operand of ! and ||).
Truthy(v) ==
    CASE v.t = "undefined" -> FALSE
      [] v.t = "string" -> v.s # <<>>
      [] v.t = "number" -> v.n # 0

\* null in a string-typed slot; a string slot holding it is falsy.
Null == <<>>

\* Request bodies submitted one request at a time.
CodeInputs == {Undefined, Str(<<>>), Num(0), Num(7), Str(<<"a">>), Str(<<"b">>)}
PresetInputs == {Undefined, Str(<<"Weak">>), Str(<<"Medium">>), Str(<<"Strong">>),
                 Str(<<"Maximum">>), Str(<<"bogus">>), Num(7)}

\* Request bodies submitted concurrently.
ConcurrentCodeInputs == {Undefined, Str(<<>>), Num(7), Str(<<"a">>), Str(<<"b">>)}
ConcurrentPresetInputs == {Undefined}
FairCodeInputs == {Str(<<"a">>)}

\* ------------------------------------------------------ module constants
VALID_PRESETS == <<"Weak", "Medium", "Strong", "Maximum">>

PRESET_MAP ==
    [p \in {"Weak", "Medium", "Strong", "Maximum"} |->
        CASE p = "Weak" -> "Weak"
          [] p = "Medium" -> "Medium"
          [] p = "Strong" -> "Strong"
          [] p = "Maximum" -> "Strong"]

possiblePaths == << <<"lua">>, <<"lua5.1">>, <<"/nix/store/lua-5.1.5/bin/lua">> >>

\* What the fallback `find | grep | head -1` can print, and whether it failed.
SearchOutcomes ==
    { [failed |-> TRUE,  stdout |-> <<>>],
      [failed |-> FALSE, stdout |-> <<>>],
      [failed |-> FALSE, stdout |-> <<"\n">>],
      [failed |-> FALSE, stdout |-> <<"/nix/store/found-lua-5.1/bin/lua", "\n">>] }

IsSpace(c) == c \in {" ", "\n"}

\* String.prototype.trim
RECURSIVE TrimLeft(_)
TrimLeft(s) == IF s # <<>> /\ IsSpace(Head(s)) THEN TrimLeft(Tail(s)) ELSE s
RECURSIVE TrimRight(_)
TrimRight(s) ==
    IF s # <<>> /\ IsSpace(s[Len(s)]) THEN TrimRight(SubSeq(s, 1, Len(s) - 1)) ELSE s
Trim(s) == TrimRight(TrimLeft(s))

\* ----------------------------------------------------------- file names
\* join(TEMP_DIR, `input_${fileId}.lua`)
InputFile(fileId) == [dir |-> "temp", base |-> <<"input_", fileId>>, ext |-> ".lua"]
\* join(TEMP_DIR, `input_${fileId}.obfuscated.lua`)
OutputFile(fileId) == [dir |-> "temp", base |-> <<"input_", fileId>>, ext |-> ".obfuscated.lua"]

NoFile == [dir |-> "", base |-> <<"", 0>>, ext |-> ""]

\* ------------------------------------------------------------ the tool
\* The obfuscator's command-line contract: it writes its result next to the
\* input, under the input's name with the extension .obfuscated.lua.
ToolOutPath(inputPath) == [inputPath EXCEPT !.ext = ".obfuscated.lua"]

\* The transformed text the tool produces for a source text under a preset.
Transform(source, toolPreset) == <<"obfuscated", toolPreset>> \o source

\* Captured standard-error texts of a subprocess.
Stderrs == {<<>>, <<"E">>}

\* ------------------------------------------------------------- variables
VARIABLES
    boot,           \* startup of registerRoutes: [pc, k]
    tempDir,        \* TEMP_DIR exists
    fs,             \* files of TEMP_DIR: path -> content
    cachedLuaPath,  \* the module-level interpreter cache, Null when empty
    usedIds,        \* identifiers randomUUID has handed out
    requests,       \* number of requests received so far
    faults,         \* number of unlink calls refused on an existing file
    job             \* the request handlers: job[j] is one invocation

vars == <<boot, tempDir, fs, cachedLuaPath, usedIds, requests, faults, job>>

NoCommand == [lua |-> Null, preset |-> "", input |-> NoFile]
NoError == [stderr |-> Undefined, message |-> Undefined]

IdleJob ==
    [ pc |-> "idle",
      code |-> Undefined,            \* req.body.code
      preset |-> Undefined,          \* req.body.preset
      validatedPreset |-> "",
      k |-> 0,                       \* findLuaPath: candidate being probed, 4 = search
      fileId |-> 0,
      command |-> NoCommand,
      error |-> NoError,             \* the value caught by the handler's catch
      obfuscatedCode |-> <<>>,
      responses |-> <<>>,            \* what res.json was called with, in order
      cause |-> "none",              \* history: which step failed
      releases |-> 0,                \* history: cleanup blocks entered
      resolved |-> Null,             \* history: what this job's findLuaPath returned,
                                     \*          kept until its command is built
      trace |-> <<>>,                \* history: the steps completed, in order
      foreign |-> FALSE ]            \* history: touched a path of another job

\* ---------------------------------------------------------- file system
FileExists(p) == p \in DOMAIN fs
WriteTo(f, p, content) == (p :> content) @@ f
Remove(f, p) == [q \in (DOMAIN f) \ {p} |-> f[q]]

FsError(text) == [stderr |-> Undefined, message |-> Str(<<text>>)]

\* ---------------------------------------------------------- pure helpers
\* The validation without its typeof test.
IsValidCode_Truthy(code) == Truthy(code)

\* line 80: !code || typeof code !== "string" is the rejection
IsValidCode(code) == Truthy(code) /\ code.t = "string"

\* line 78: the destructuring default applies to an absent preset only
DefaultPreset(preset) == IF preset.t = "undefined" THEN Str(<<"Strong">>) ELSE preset

InValidPresets(v) ==
    /\ v.t = "string"
    /\ Len(v.s) = 1
    /\ \E i \in 1..Len(VALID_PRESETS) : VALID_PRESETS[i] = v.s[1]

\* The normalisation without its membership test.
ValidatePreset_Unchecked(preset) ==
    IF DefaultPreset(preset).t = "string" /\ Len(DefaultPreset(preset).s) = 1
    THEN DefaultPreset(preset).s[1] ELSE "Strong"

\* lines 87-89
ValidatePreset(preset) ==
    IF InValidPresets(DefaultPreset(preset)) THEN DefaultPreset(preset).s[1] ELSE "Strong"

\* The tier name goes to the tool unmapped.
ActualPreset_Identity(validatedPreset) == validatedPreset

\* line 109: PRESET_MAP[validatedPreset] || "Strong"
ActualPreset(validatedPreset) ==
    IF validatedPreset \in DOMAIN PRESET_MAP THEN PRESET_MAP[validatedPreset] ELSE "Strong"

\* A scratch name that does not depend on the request.
randomUUID_Fixed(used) == 1

\* line 102: a fresh identifier, never handed out before
randomUUID(used) == Cardinality(used) + 1

\* line 110: the command line, as the parts that vary
Command(lua, actualPreset, inputFile) ==
    [lua |-> lua, preset |-> actualPreset, input |-> inputFile]

\* The error child_process.exec rejects with (promisify attaches stderr).
ExecError(outcome, stderr) ==
    IF outcome = "overflow"
    THEN [stderr |-> Str(stderr), message |-> Str(<<"stdout maxBuffer length exceeded">>)]
    ELSE [stderr |-> Str(stderr),
          message |-> Str(<<"Command failed: ", "<command>", "\n">> \o stderr)]

\* The message without the caught error's texts.
ErrorMessage_Generic(error) == <<"Unknown error during obfuscation">>

\* line 141: error.stderr || error.message || "Unknown error during obfuscation"
ErrorMessage(error) ==
    IF Truthy(error.stderr) THEN error.stderr.s
    ELSE IF Truthy(error.message) THEN error.message.s
    ELSE <<"Unknown error during obfuscation">>

\* line 97: error.message || "Lua interpreter not found."
ResolveErrorMessage(error) ==
    IF Truthy(error.message) THEN error.message.s ELSE <<"Lua interpreter not found.">>

\* line 50
NotFoundError ==
    [stderr |-> Undefined,
     message |-> Str(<<"Lua interpreter not found. Please ensure Lua 5.1 is installed.">>)]

\* The bodies passed to res.json, with the HTTP status.
Failure(status, message) ==
    [status |-> status, success |-> FALSE, error |-> message,
     obfuscatedCode |-> <<>>, preset |-> ""]
Success(text, preset) ==
    [status |-> 200, success |-> TRUE, error |-> <<>>,
     obfuscatedCode |-> text, preset |-> preset]

\* Another job's scratch paths.
PathsOf(r) == IF r.fileId = 0 THEN {} ELSE {InputFile(r.fileId), OutputFile(r.fileId)}
IsForeign(j, p) == \E o \in Jobs \ {j} : p \in PathsOf(job[o])

\* ------------------------------------------------------- findLuaPath
\* lines 40-50: the value the fallback search returns, Null when it throws.
SearchResult(out) ==
    IF ~out.failed /\ Truthy(Str(Trim(out.stdout))) THEN Trim(out.stdout) ELSE Null

\* ----------------------------------------------------- handler helpers
Step(r, token) == [r EXCEPT !.trace = Append(@, token)]

Respond(r, body) ==
    [r EXCEPT !.responses = Append(@, body), !.pc = "done", !.trace = Append(@, "respond")]

\* the response names the preset the tool ran with
FinishTry_ReportsToolPreset(r) == Respond(r, Success(r.obfuscatedCode, r.command.preset))

\* lines 126-130
FinishTry(r) == Respond(r, Success(r.obfuscatedCode, r.validatedPreset))

\* lines 139-145
FinishCatch(r) ==
    Respond(r, Failure(500, <<"Obfuscation failed: ">> \o ErrorMessage(r.error)))

Finish(r) == IF r.pc \in {"s_unlink_in", "s_unlink_out"} THEN FinishTry(r) ELSE FinishCatch(r)

\* line 131: control enters the catch block, whose first statement is the cleanup
EnterCatch(r, error, cause) ==
    [r EXCEPT !.pc = "c_unlink_in", !.error = error, !.cause = cause, !.releases = @ + 1]

\* lines 102-107: allocate the scratch paths and start writing the input file
Allocate(r, fileId) ==
    Step([r EXCEPT !.fileId = fileId, !.pc = "writing", !.k = 0], "allocate")

\* --------------------------------------------------------------- startup
Init ==
    /\ boot = [pc |-> "mkdir", k |-> 0]
    /\ tempDir \in BOOLEAN
    /\ fs = << >>
    /\ cachedLuaPath = Null
    /\ usedIds = {}
    /\ requests = 0
    /\ faults = 0
    /\ job = [j \in Jobs |-> IdleJob]

\* lines 53-59, 68: mkdir's error is swallowed
EnsureTempDir(ok) ==
    /\ boot.pc = "mkdir"
    /\ tempDir' = (tempDir \/ ok)
    /\ boot' = [pc |-> "resolve", k |-> 1]
    /\ UNCHANGED <<fs, cachedLuaPath, usedIds, requests, faults, job>>

\* lines 31-38 under lines 70-75: one version probe at startup
BootProbe(ok) ==
    /\ boot.pc = "resolve"
    /\ boot.k \in 1..Len(possiblePaths)
    /\ IF ok
       THEN /\ cachedLuaPath' = possiblePaths[boot.k]
            /\ boot' = [pc |-> "listening", k |-> 0]
       ELSE /\ boot' = [boot EXCEPT !.k = @ + 1]
            /\ UNCHANGED cachedLuaPath
    /\ UNCHANGED <<tempDir, fs, usedIds, requests, faults, job>>

\* lines 40-50 under lines 70-75: the fallback search at startup
BootSearch(out) ==
    /\ boot.pc = "resolve"
    /\ boot.k = Len(possiblePaths) + 1
    /\ cachedLuaPath' = SearchResult(out)
    /\ boot' = [pc |-> "listening", k |-> 0]
    /\ UNCHANGED <<tempDir, fs, usedIds, requests, faults, job>>

\* ------------------------------------------------- POST /api/obfuscate
\* The scratch paths are allocated before the interpreter check.
Submit_AllocateFirst(j, code, preset) ==
    /\ boot.pc = "listening"
    /\ job[j].pc = "idle"
    /\ \A i \in Jobs : i < j => job[i].pc # "idle"
    /\ requests < MaxRequests
    /\ requests' = requests + 1
    /\ LET r == Step([job[j] EXCEPT !.code = code, !.preset = preset], "validate") IN
       IF ~IsValidCode(code)
       THEN /\ job' = [job EXCEPT ![j] =
                    Respond([r EXCEPT !.cause = "invalid"],
                            Failure(400, <<"No code provided. Please enter Lua code to obfuscate.">>))]
            /\ UNCHANGED usedIds
       ELSE LET v == Step([r EXCEPT !.validatedPreset = ValidatePreset(preset)], "normalize") IN
            IF cachedLuaPath = Null
            THEN /\ job' = [job EXCEPT ![j] = [v EXCEPT !.pc = "resolving", !.k = 1]]
                 /\ UNCHANGED usedIds
            ELSE /\ job' = [job EXCEPT ![j] =
                         Step(Allocate(v, randomUUID(usedIds)), "resolve:cached")]
                 /\ usedIds' = usedIds \cup {randomUUID(usedIds)}
    /\ UNCHANGED <<boot, tempDir, fs, cachedLuaPath, faults>>

\* lines 78-107, up to the handler's first await
Submit(j, code, preset) ==
    /\ boot.pc = "listening"
    /\ job[j].pc = "idle"
    /\ \A i \in Jobs : i < j => job[i].pc # "idle"
    /\ requests < MaxRequests
    /\ requests' = requests + 1
    /\ LET r == Step([job[j] EXCEPT !.code = code, !.preset = preset], "validate") IN
       IF ~IsValidCode(code)
       THEN /\ job' = [job EXCEPT ![j] =
                    Respond([r EXCEPT !.cause = "invalid"],
                            Failure(400, <<"No code provided. Please enter Lua code to obfuscate.">>))]
            /\ UNCHANGED usedIds
       ELSE LET v == Step([r EXCEPT !.validatedPreset = ValidatePreset(preset)], "normalize") IN
            IF cachedLuaPath = Null
            THEN /\ job' = [job EXCEPT ![j] = [v EXCEPT !.pc = "resolving", !.k = 1]]
                 /\ UNCHANGED usedIds
            ELSE /\ job' = [job EXCEPT ![j] =
                         Allocate(Step(v, "resolve:cached"), randomUUID(usedIds))]
                 /\ usedIds' = usedIds \cup {randomUUID(usedIds)}
    /\ UNCHANGED <<boot, tempDir, fs, cachedLuaPath, faults>>

\* A failed probe ends the loop over the candidates.
Probe_BreakOnFailure(j, ok) ==
    /\ job[j].pc = "resolving"
    /\ job[j].k \in 1..Len(possiblePaths)
    /\ IF ok
       THEN /\ cachedLuaPath' = possiblePaths[job[j].k]
            /\ job' = [job EXCEPT ![j] =
                  Allocate(Step([@ EXCEPT !.resolved = possiblePaths[job[j].k]], "resolve:ok"),
                           randomUUID(usedIds))]
            /\ usedIds' = usedIds \cup {randomUUID(usedIds)}
       ELSE /\ job' = [job EXCEPT ![j].k = Len(possiblePaths) + 1]
            /\ UNCHANGED <<cachedLuaPath, usedIds>>
    /\ UNCHANGED <<boot, tempDir, fs, requests, faults>>

\* lines 31-38 under line 93: one version probe of a re-resolution
Probe(j, ok) ==
    /\ job[j].pc = "resolving"
    /\ job[j].k \in 1..Len(possiblePaths)
    /\ IF ok
       THEN /\ cachedLuaPath' = possiblePaths[job[j].k]
            /\ job' = [job EXCEPT ![j] =
                  Allocate(Step([@ EXCEPT !.resolved = possiblePaths[job[j].k]], "resolve:ok"),
                           randomUUID(usedIds))]
            /\ usedIds' = usedIds \cup {randomUUID(usedIds)}
       ELSE /\ job' = [job EXCEPT ![j].k = @ + 1]
            /\ UNCHANGED <<cachedLuaPath, usedIds>>
    /\ UNCHANGED <<boot, tempDir, fs, requests, faults>>

\* A failed resolution is logged and the handler goes on.
Search_ContinuesOnFailure(j, out) ==
    /\ job[j].pc = "resolving"
    /\ job[j].k = Len(possiblePaths) + 1
    /\ IF SearchResult(out) # Null
       THEN /\ cachedLuaPath' = SearchResult(out)
            /\ job' = [job EXCEPT ![j] =
                  Allocate(Step([@ EXCEPT !.resolved = SearchResult(out)], "resolve:ok"),
                           randomUUID(usedIds))]
       ELSE /\ job' = [job EXCEPT ![j] = Allocate(Step(@, "resolve:error"), randomUUID(usedIds))]
            /\ UNCHANGED cachedLuaPath
    /\ usedIds' = usedIds \cup {randomUUID(usedIds)}
    /\ UNCHANGED <<boot, tempDir, fs, requests, faults>>

\* The cache is assigned the outcome of the resolution, empty when it failed.
Search_ResetsCache(j, out) ==
    /\ job[j].pc = "resolving"
    /\ job[j].k = Len(possiblePaths) + 1
    /\ cachedLuaPath' = SearchResult(out)
    /\ IF SearchResult(out) # Null
       THEN /\ job' = [job EXCEPT ![j] =
                  Allocate(Step([@ EXCEPT !.resolved = SearchResult(out)], "resolve:ok"),
                           randomUUID(usedIds))]
            /\ usedIds' = usedIds \cup {randomUUID(usedIds)}
       ELSE /\ job' = [job EXCEPT ![j] =
                    Respond(Step([@ EXCEPT !.cause = "notfound", !.k = 0], "resolve:error"),
                            Failure(500, ResolveErrorMessage(NotFoundError)))]
            /\ UNCHANGED usedIds
    /\ UNCHANGED <<boot, tempDir, fs, requests, faults>>

\* lines 40-50 under lines 93-99: the fallback search of a re-resolution
Search(j, out) ==
    /\ job[j].pc = "resolving"
    /\ job[j].k = Len(possiblePaths) + 1
    /\ IF SearchResult(out) # Null
       THEN /\ cachedLuaPath' = SearchResult(out)
            /\ job' = [job EXCEPT ![j] =
                  Allocate(Step([@ EXCEPT !.resolved = SearchResult(out)], "resolve:ok"),
                           randomUUID(usedIds))]
            /\ usedIds' = usedIds \cup {randomUUID(usedIds)}
       ELSE /\ job' = [job EXCEPT ![j] =
                    Respond(Step([@ EXCEPT !.cause = "notfound", !.k = 0], "resolve:error"),
                            Failure(500, ResolveErrorMessage(NotFoundError)))]
            /\ UNCHANGED <<cachedLuaPath, usedIds>>
    /\ UNCHANGED <<boot, tempDir, fs, requests, faults>>

\* writeFile outside the try block: its rejection leaves the handler.
WriteFileDone_Unhandled(j, outcome) ==
    /\ job[j].pc = "writing"
    /\ outcome \in {"ok", "partial", "error"}
    /\ outcome \in {"ok", "partial"} => tempDir
    /\ LET r == [job[j] EXCEPT !.resolved = Null]
           inputFile == InputFile(r.fileId)
       IN IF outcome = "ok"
          THEN /\ fs' = WriteTo(fs, inputFile, r.code.s)
               /\ job' = [job EXCEPT ![j] =
                     [Step(r, "write:ok") EXCEPT !.pc = "exec",
                               !.command = Command(cachedLuaPath,
                                                   ActualPreset(r.validatedPreset),
                                                   inputFile)]]
          ELSE /\ fs' = IF outcome = "partial" THEN WriteTo(fs, inputFile, <<>>) ELSE fs
               /\ job' = [job EXCEPT ![j] =
                     [Step(r, "write:error") EXCEPT !.pc = "unhandled", !.cause = "write"]]
    /\ UNCHANGED <<boot, tempDir, cachedLuaPath, usedIds, requests, faults>>

\* The command line carries the tier string as the caller sent it.
WriteFileDone_RawPreset(j, outcome) ==
    /\ job[j].pc = "writing"
    /\ outcome \in {"ok", "partial", "error"}
    /\ outcome \in {"ok", "partial"} => tempDir
    /\ LET r == [job[j] EXCEPT !.foreign = @ \/ IsForeign(j, InputFile(job[j].fileId)),
                               !.resolved = Null]
           inputFile == InputFile(r.fileId)
           raw == DefaultPreset(r.preset)
       IN CASE outcome = "ok" ->
                 /\ fs' = WriteTo(fs, inputFile, r.code.s)
                 /\ job' = [job EXCEPT ![j] =
                       [Step(r, "write:ok") EXCEPT !.pc = "exec",
                                 !.command = Command(cachedLuaPath,
                                                     IF raw.t = "string" /\ raw.s # <<>>
                                                     THEN raw.s[1] ELSE "7",
                                                     inputFile)]]
            [] outcome = "partial" ->
                 /\ fs' = WriteTo(fs, inputFile, <<>>)
                 /\ job' = [job EXCEPT ![j] =
                       EnterCatch(Step(r, "write:error"),
                                  FsError("ENOSPC: no space left on device, write"), "write")]
            [] outcome = "error" ->
                 /\ fs' = fs
                 /\ job' = [job EXCEPT ![j] =
                       EnterCatch(Step(r, "write:error"),
                                  FsError("ENOENT: no such file or directory, open"), "write")]
    /\ UNCHANGED <<boot, tempDir, cachedLuaPath, usedIds, requests, faults>>

\* line 107 completes; on success lines 109-115 build the command and start it
WriteFileDone(j, outcome) ==
    /\ job[j].pc = "writing"
    /\ outcome \in {"ok", "partial", "error"}
    /\ outcome \in {"ok", "partial"} => tempDir
    /\ LET r == [job[j] EXCEPT !.foreign = @ \/ IsForeign(j, InputFile(job[j].fileId)),
                               !.resolved = Null]
           inputFile == InputFile(r.fileId)
       IN CASE outcome = "ok" ->
                 /\ fs' = WriteTo(fs, inputFile, r.code.s)
                 /\ job' = [job EXCEPT ![j] =
                       [Step(r, "write:ok") EXCEPT !.pc = "exec",
                                 !.command = Command(cachedLuaPath,
                                                     ActualPreset(r.validatedPreset),
                                                     inputFile)]]
            [] outcome = "partial" ->
                 /\ fs' = WriteTo(fs, inputFile, <<>>)
                 /\ job' = [job EXCEPT ![j] =
                       EnterCatch(Step(r, "write:error"),
                                  FsError("ENOSPC: no space left on device, write"), "write")]
            [] outcome = "error" ->
                 /\ fs' = fs
                 /\ job' = [job EXCEPT ![j] =
                       EnterCatch(Step(r, "write:error"),
                                  FsError("ENOENT: no such file or directory, open"), "write")]
    /\ UNCHANGED <<boot, tempDir, cachedLuaPath, usedIds, requests, faults>>

\* The running tool reads its input file and writes the output file.
ToolWritesOutput(j) ==
    /\ job[j].pc = "exec"
    /\ FileExists(job[j].command.input)
    /\ ~FileExists(ToolOutPath(job[j].command.input))
    /\ fs' = WriteTo(fs, ToolOutPath(job[j].command.input),
                     Transform(fs[job[j].command.input], job[j].command.preset))
    /\ job' = [job EXCEPT ![j].foreign =
                  @ \/ IsForeign(j, job[j].command.input)
                    \/ IsForeign(j, ToolOutPath(job[j].command.input))]
    /\ UNCHANGED <<boot, tempDir, cachedLuaPath, usedIds, requests, faults>>

\* The invocation's rejection swallowed: the output is read whatever happened.
ExecDone_IgnoreFailure(j, outcome, stderr) ==
    /\ job[j].pc = "exec"
    /\ outcome \in {"ok", "exit", "timeout", "overflow"}
    /\ outcome = "ok" => stderr = <<>>
    /\ job' = [job EXCEPT ![j] =
          [Step(@, IF outcome = "ok" THEN "exec:ok" ELSE "exec:error") EXCEPT !.pc = "reading"]]
    /\ UNCHANGED <<boot, tempDir, fs, cachedLuaPath, usedIds, requests, faults>>

\* A failed invocation is tried once more before the job gives up.
ExecDone_RetryOnce(j, outcome, stderr) ==
    /\ job[j].pc = "exec"
    /\ outcome \in {"ok", "exit", "timeout", "overflow"}
    /\ outcome = "ok" => stderr = <<>>
    /\ job' = [job EXCEPT ![j] =
          IF outcome = "ok"
          THEN [Step(@, "exec:ok") EXCEPT !.pc = "reading"]
          ELSE IF \E i \in 1..Len(job[j].trace) : job[j].trace[i] = "exec:error"
               THEN EnterCatch(Step(@, "exec:error"), ExecError(outcome, stderr), outcome)
               ELSE Step(@, "exec:error")]
    /\ UNCHANGED <<boot, tempDir, fs, cachedLuaPath, usedIds, requests, faults>>

\* The invocation has no timer: it completes only when the subprocess ends.
ExecDone_NoTimeout(j, outcome, stderr) ==
    /\ job[j].pc = "exec"
    /\ outcome \in {"ok", "exit", "overflow"}
    /\ outcome = "ok" => stderr = <<>>
    /\ job' = [job EXCEPT ![j] =
          IF outcome = "ok"
          THEN [Step(@, "exec:ok") EXCEPT !.pc = "reading"]
          ELSE EnterCatch(Step(@, "exec:error"), ExecError(outcome, stderr), outcome)]
    /\ UNCHANGED <<boot, tempDir, fs, cachedLuaPath, usedIds, requests, faults>>

\* lines 112-115 complete; on success line 117 starts reading the output
ExecDone(j, outcome, stderr) ==
    /\ job[j].pc = "exec"
    /\ outcome \in {"ok", "exit", "timeout", "overflow"}
    /\ outcome = "ok" => stderr = <<>>
    /\ job' = [job EXCEPT ![j] =
          IF outcome = "ok"
          THEN [Step(@, "exec:ok") EXCEPT !.pc = "reading"]
          ELSE EnterCatch(Step(@, "exec:error"), ExecError(outcome, stderr), outcome)]
    /\ UNCHANGED <<boot, tempDir, fs, cachedLuaPath, usedIds, requests, faults>>

\* The success path without its cleanup block.
ReadFileDone_NoCleanup(j, fault) ==
    /\ job[j].pc = "reading"
    /\ LET outputFile == OutputFile(job[j].fileId)
           r == job[j]
       IN job' = [job EXCEPT ![j] =
            IF FileExists(outputFile) /\ ~fault
            THEN FinishTry([Step(r, "read:ok") EXCEPT !.obfuscatedCode = fs[outputFile]])
            ELSE EnterCatch(Step(r, "read:error"),
                            FsError("ENOENT: no such file or directory, open"), "read")]
    /\ UNCHANGED <<boot, tempDir, fs, cachedLuaPath, usedIds, requests, faults>>

\* A failed read answered as an empty text.
ReadFileDone_EmptyOnError(j, fault) ==
    /\ job[j].pc = "reading"
    /\ LET outputFile == OutputFile(job[j].fileId)
           r == job[j]
       IN job' = [job EXCEPT ![j] =
            [Step(r, "read:ok") EXCEPT
                !.obfuscatedCode = IF FileExists(outputFile) /\ ~fault
                                   THEN fs[outputFile] ELSE <<>>,
                !.pc = "s_unlink_in", !.releases = @ + 1]]
    /\ UNCHANGED <<boot, tempDir, fs, cachedLuaPath, usedIds, requests, faults>>

\* line 117 completes; on success lines 119-120 start the cleanup
ReadFileDone(j, fault) ==
    /\ job[j].pc = "reading"
    /\ LET outputFile == OutputFile(job[j].fileId)
           r == [job[j] EXCEPT !.foreign = @ \/ IsForeign(j, outputFile)]
       IN job' = [job EXCEPT ![j] =
            IF FileExists(outputFile) /\ ~fault
            THEN [Step(r, "read:ok") EXCEPT !.obfuscatedCode = fs[outputFile],
                                            !.pc = "s_unlink_in", !.releases = @ + 1]
            ELSE EnterCatch(Step(r, "read:error"), FsError(IF FileExists(outputFile)
                                       THEN "EIO: i/o error, read"
                                       ELSE "ENOENT: no such file or directory, open"),
                            "read")]
    /\ UNCHANGED <<boot, tempDir, fs, cachedLuaPath, usedIds, requests, faults>>

\* A rejected unlink of the input file becomes the job's answer.
UnlinkInputDone_Escalates(j, fault) ==
    /\ job[j].pc \in {"s_unlink_in", "c_unlink_in"}
    /\ fault => FileExists(InputFile(job[j].fileId)) /\ faults < MaxFaults
    /\ faults' = IF fault THEN faults + 1 ELSE faults
    /\ LET inputFile == InputFile(job[j].fileId)
           r == [job[j] EXCEPT !.foreign = @ \/ IsForeign(j, inputFile)]
       IN IF FileExists(inputFile) /\ ~fault
          THEN /\ fs' = Remove(fs, inputFile)
               /\ job' = [job EXCEPT ![j] =
                     [Step(r, "unlink_in:ok") EXCEPT
                         !.pc = IF r.pc = "s_unlink_in" THEN "s_unlink_out" ELSE "c_unlink_out"]]
          ELSE /\ fs' = fs
               /\ job' = [job EXCEPT ![j] =
                     Respond(Step(r, "unlink_in:error"),
                             Failure(500, <<"Obfuscation failed: ">> \o
                                 ErrorMessage(FsError("ENOENT: no such file or directory, unlink"))))]
    /\ UNCHANGED <<boot, tempDir, cachedLuaPath, usedIds, requests>>

\* lines 120 and 133 complete: unlink(inputFile); a rejection skips to the response
UnlinkInputDone(j, fault) ==
    /\ job[j].pc \in {"s_unlink_in", "c_unlink_in"}
    /\ fault => FileExists(InputFile(job[j].fileId)) /\ faults < MaxFaults
    /\ faults' = IF fault THEN faults + 1 ELSE faults
    /\ LET inputFile == InputFile(job[j].fileId)
           r == [job[j] EXCEPT !.foreign = @ \/ IsForeign(j, inputFile)]
       IN IF FileExists(inputFile) /\ ~fault
          THEN /\ fs' = Remove(fs, inputFile)
               /\ job' = [job EXCEPT ![j] =
                     [Step(r, "unlink_in:ok") EXCEPT
                         !.pc = IF r.pc = "s_unlink_in" THEN "s_unlink_out" ELSE "c_unlink_out"]]
          ELSE /\ fs' = fs
               /\ job' = [job EXCEPT ![j] = Finish(Step(r, "unlink_in:error"))]
    /\ UNCHANGED <<boot, tempDir, cachedLuaPath, usedIds, requests>>

\* lines 121 and 134 complete: unlink(outputFile); then the response is sent
UnlinkOutputDone(j, fault) ==
    /\ job[j].pc \in {"s_unlink_out", "c_unlink_out"}
    /\ fault => FileExists(OutputFile(job[j].fileId)) /\ faults < MaxFaults
    /\ faults' = IF fault THEN faults + 1 ELSE faults
    /\ LET outputFile == OutputFile(job[j].fileId)
           r == [job[j] EXCEPT !.foreign = @ \/ IsForeign(j, outputFile)]
       IN /\ fs' = IF FileExists(outputFile) /\ ~fault THEN Remove(fs, outputFile) ELSE fs
          /\ job' = [job EXCEPT ![j] =
                Finish(Step(r, IF FileExists(outputFile) /\ ~fault
                               THEN "unlink_out:ok" ELSE "unlink_out:error"))]
    /\ UNCHANGED <<boot, tempDir, cachedLuaPath, usedIds, requests>>

\* The handler invocation has returned and its locals are gone.
Retire(j) ==
    /\ job[j].pc = "done"
    /\ job' = [job EXCEPT ![j] = IdleJob]
    /\ UNCHANGED <<boot, tempDir, fs, cachedLuaPath, usedIds, requests, faults>>

\* --------------------------------------------------------- specification
InFlight == {j \in Jobs : job[j].pc # "idle"}

Startup ==
    \/ \E ok \in BOOLEAN : EnsureTempDir(ok)
    \/ \E ok \in BOOLEAN : BootProbe(ok)
    \/ \E out \in SearchOutcomes : BootSearch(out)

Handler(j) ==
    \/ \E ok \in BOOLEAN : Probe(j, ok)
    \/ \E out \in SearchOutcomes : Search(j, out)
    \/ \E outcome \in {"ok", "partial", "error"} : WriteFileDone(j, outcome)
    \/ ToolWritesOutput(j)
    \/ \E outcome \in {"ok", "exit", "timeout", "overflow"}, stderr \in Stderrs :
          ExecDone(j, outcome, stderr)
    \/ \E fault \in BOOLEAN : ReadFileDone(j, fault)
    \/ \E fault \in BOOLEAN : UnlinkInputDone(j, fault)
    \/ \E fault \in BOOLEAN : UnlinkOutputDone(j, fault)
    \/ Retire(j)

\* A request arrives while others may be in flight, one per handler slot.
SubmitConcurrent(j, code, preset) ==
    /\ requests < Cardinality(Jobs)
    /\ Submit(j, code, preset)

\* A request arrives when no other is in flight.
SubmitSerial(j, code, preset) ==
    /\ InFlight = {}
    /\ Submit(j, code, preset)

Next ==
    \/ Startup
    \/ \E j \in Jobs, code \in ConcurrentCodeInputs, preset \in ConcurrentPresetInputs :
          SubmitConcurrent(j, code, preset)
    \/ \E j \in Jobs : Handler(j)

Spec == Init /\ [][Next]_vars

\* Requests arrive one at a time, with every kind of body.
NextSerial ==
    \/ Startup
    \/ \E j \in Jobs, code \in CodeInputs, preset \in PresetInputs :
          SubmitSerial(j, code, preset)
    \/ \E j \in Jobs : Handler(j)

SpecSerial == Init /\ [][NextSerial]_vars

\* The steps of a handler that complete by themselves: every awaited file
\* operation and probe settles, and the invocation's timer (line 113) fires
\* unless the subprocess ended before. Whether the subprocess ends on its own
\* is left open.
Completion(j) ==
    \/ \E ok \in BOOLEAN : Probe(j, ok)
    \/ \E out \in SearchOutcomes : Search(j, out)
    \/ \E outcome \in {"ok", "partial", "error"} : WriteFileDone(j, outcome)
    \/ \E stderr \in Stderrs : ExecDone(j, "timeout", stderr)
    \/ \E fault \in BOOLEAN : ReadFileDone(j, fault)
    \/ \E fault \in BOOLEAN : UnlinkInputDone(j, fault)
    \/ \E fault \in BOOLEAN : UnlinkOutputDone(j, fault)

\* What the subprocess may do on its own: write its output, end.
Subprocess(j) ==
    \/ ToolWritesOutput(j)
    \/ \E outcome \in {"ok", "exit"} : ExecDone(j, outcome, <<>>)

\* Concurrent requests with valid source text, under a fair event loop.
NextFair ==
    \/ Startup
    \/ \E j \in Jobs, code \in FairCodeInputs, preset \in ConcurrentPresetInputs :
          SubmitConcurrent(j, code, preset)
    \/ \E j \in Jobs : Completion(j)
    \/ \E j \in Jobs : Subprocess(j)

SpecFair == Init /\ [][NextFair]_vars /\ \A j \in Jobs : WF_vars(Completion(j))

TypeOK ==
    /\ boot.pc \in {"mkdir", "resolve", "listening"}
    /\ tempDir \in BOOLEAN
    /\ cachedLuaPath \in {Null} \cup {possiblePaths[i] : i \in 1..Len(possiblePaths)}
                          \cup {SearchResult(out) : out \in SearchOutcomes}
    /\ requests \in 0..MaxRequests
    /\ faults \in 0..MaxFaults
    /\ \A j \in Jobs : job[j].fileId \in usedIds \cup {0}

\* ================================================================ claims
Done(j) == job[j].pc = "done"
Result(j) == job[j].responses[Len(job[j].responses)]
Succeeded(j) == Done(j) /\ job[j].responses # <<>> /\ Result(j).success
Failed(j) == Done(j) /\ job[j].responses # <<>> /\ ~Result(j).success
Did(j, token) == \E i \in 1..Len(job[j].trace) : job[j].trace[i] = token
Times(j, token) == Cardinality({i \in 1..Len(job[j].trace) : job[j].trace[i] = token})

\* s occurs in text as a contiguous piece
Contains(text, s) ==
    \E i \in 0..(Len(text) - Len(s)) : SubSeq(text, i + 1, i + Len(s)) = s

\* The source text is empty or not a string.
EmptyOrNotText(v) == v.t # "string" \/ v.s = <<>>

\* The four caller-facing tiers, and the tier a submitted value stands for.
Tiers == {"Weak", "Medium", "Strong", "Maximum"}
IsTier(v) == v.t = "string" /\ Len(v.s) = 1 /\ v.s[1] \in Tiers

\* C1: when a job's result has been returned, neither its input path nor its
\* output path exists in the temp directory, whatever the outcome.
C1_NoLeak ==
    \A j \in Jobs : Done(j) =>
        /\ ~FileExists(InputFile(job[j].fileId))
        /\ ~FileExists(OutputFile(job[j].fileId))

\* C2 as stated: every job that got past input validation has executed the
\* release exactly once when it is Failed or Done, a failed interpreter
\* resolution included.
C2_ReleaseOnceAfterValidation ==
    \A j \in Jobs : (Done(j) /\ ~EmptyOrNotText(job[j].code)) =>
        /\ job[j].releases = 1
        /\ Times(j, "unlink_in:ok") + Times(j, "unlink_in:error") = 1

\* C2 amended: a job that allocated its scratch paths has entered the release
\* exactly once when it is Failed or Done (one unlink of the input path, at
\* most one of the output path); a job whose interpreter resolution failed
\* has allocated nothing and has executed no release.
C2_ReleaseOnceAfterAllocation ==
    \A j \in Jobs : Done(j) =>
        IF job[j].fileId # 0
        THEN /\ job[j].releases = 1
             /\ Times(j, "unlink_in:ok") + Times(j, "unlink_in:error") = 1
             /\ Times(j, "unlink_out:ok") + Times(j, "unlink_out:error") <= 1
        ELSE /\ job[j].releases = 0
             /\ Times(j, "unlink_in:ok") + Times(j, "unlink_in:error") = 0
             /\ Times(j, "unlink_out:ok") + Times(j, "unlink_out:error") = 0

C2_Witness ==
    \E j \in Jobs :
        /\ Failed(j) /\ job[j].cause = "timeout" /\ job[j].releases = 1
        /\ Did(j, "unlink_in:ok") /\ Did(j, "unlink_out:ok")

\* C3: a request whose source text is empty or not a string is answered in
\* the step that receives it, with a failure, and that step changes nothing
\* else: no file, no interpreter probe, no cache write, no identifier, no
\* command.
C3_RejectionChangesNothing ==
    [][\A j \in Jobs :
          (job[j].pc = "idle" /\ job'[j].pc # "idle" /\ EmptyOrNotText(job'[j].code)) =>
              /\ job'[j].pc = "done"
              /\ Len(job'[j].responses) = 1
              /\ ~job'[j].responses[1].success
              /\ job'[j].responses[1].error # <<>>
              /\ job'[j].fileId = 0 /\ job'[j].k = 0
              /\ job'[j].command = NoCommand
              /\ UNCHANGED <<boot, tempDir, fs, cachedLuaPath, usedIds, faults>>
              /\ \A o \in Jobs \ {j} : job'[o] = job[o]]_vars

C3_Witness ==
    \E j \in Jobs, o \in Jobs :
        /\ Failed(j) /\ job[j].code = Num(7) /\ Result(j).status = 400
        /\ job[o].pc = "exec"

\* C4: a job with valid source text and a tier outside the four (or none)
\* carries the tier Strong from validation on, runs the tool with the preset
\* of Strong, reports Strong, and fails only for a cause that a job
\* submitted with Strong can fail for.
C4_UnknownTierIsStrong ==
    \A j \in Jobs :
        (job[j].pc # "idle" /\ ~EmptyOrNotText(job[j].code) /\ ~IsTier(job[j].preset)) =>
            /\ job[j].validatedPreset = "Strong"
            /\ job[j].command # NoCommand => job[j].command.preset = "Strong"
            /\ Succeeded(j) => Result(j).preset = "Strong"
            /\ Failed(j) => job[j].cause \in
                   {"notfound", "write", "exit", "timeout", "overflow", "read"}

C4_Witness ==
    \E j \in Jobs :
        /\ Succeeded(j) /\ job[j].preset = Str(<<"bogus">>)
        /\ Result(j).preset = "Strong" /\ job[j].command.preset = "Strong"

\* C5: a success result is returned only after the subprocess exited zero
\* and the output file was read, and it carries the whole text the tool
\* wrote; a zero exit followed by a failed read ends in a failure with a
\* message and without text.
C5_SuccessOnlyAfterExecAndRead ==
    \A j \in Jobs :
        /\ Succeeded(j) =>
              /\ Did(j, "exec:ok") /\ Did(j, "read:ok")
              /\ ~Did(j, "exec:error") /\ ~Did(j, "read:error")
              /\ Result(j).obfuscatedCode = Transform(job[j].code.s, job[j].command.preset)
        /\ (Done(j) /\ Did(j, "exec:ok") /\ Did(j, "read:error")) =>
              /\ Failed(j)
              /\ Result(j).error # <<>>
              /\ Result(j).obfuscatedCode = <<>>

C5_Witness ==
    \E j \in Jobs :
        /\ Failed(j) /\ Did(j, "exec:ok") /\ Did(j, "read:error")
        /\ job[j].cause = "read"

\* C6: every failure of a pipeline step ends in one failure result with a
\* message; a request has no result while it runs and exactly one when it
\* has returned, and no job stops without one.
C6_OneStructuredResult ==
    \A j \in Jobs :
        /\ job[j].pc \in {"idle", "resolving", "writing", "exec", "reading",
                          "s_unlink_in", "s_unlink_out", "c_unlink_in", "c_unlink_out",
                          "done"}
        /\ Len(job[j].responses) = (IF Done(j) THEN 1 ELSE 0)
        /\ Done(j) =>
              /\ Result(j).success <=> job[j].cause = "none"
              /\ ~Result(j).success => Result(j).error # <<>>
        /\ job[j].cause # "none" => job[j].pc \in {"c_unlink_in", "c_unlink_out", "done"}

C6_Witness ==
    \E j \in Jobs :
        /\ Failed(j) /\ job[j].cause = "write" /\ Did(j, "unlink_in:error")

\* C7: a job whose subprocess exceeded the timeout ends in a failure that
\* tells a timeout from a buffer overflow and from a nonzero exit of the same
\* invocation, and its scratch files are absent once it has returned.
C7_TimeoutKindAndRelease ==
    \A j \in Jobs : (Done(j) /\ job[j].cause = "timeout") =>
        /\ Failed(j)
        /\ \A other \in {"exit", "overflow"} :
              Result(j).error #
                  <<"Obfuscation failed: ">> \o ErrorMessage(ExecError(other, job[j].error.stderr.s))
        /\ ~FileExists(InputFile(job[j].fileId))
        /\ ~FileExists(OutputFile(job[j].fileId))

\* C8: the failure message of a job whose subprocess exited nonzero contains
\* the captured standard-error text.
C8_ExitMessageHasStderr ==
    \A j \in Jobs : (Done(j) /\ job[j].cause = "exit") =>
        /\ Failed(j)
        /\ Contains(Result(j).error, job[j].error.stderr.s)

C8_Witness ==
    \E j \in Jobs :
        /\ Failed(j) /\ job[j].cause = "exit" /\ job[j].error.stderr.s = <<"E">>

\* C9: jobs in flight together have distinct identifiers and disjoint
\* scratch paths, no job touches a path of another job, and a successful
\* result is the tool's output for that job's own source text.
C9_NoCrossContamination ==
    /\ \A j \in Jobs, o \in Jobs :
          (j # o /\ job[j].fileId # 0 /\ job[o].fileId # 0) =>
              /\ job[j].fileId # job[o].fileId
              /\ PathsOf(job[j]) \cap PathsOf(job[o]) = {}
    /\ \A j \in Jobs :
          /\ ~job[j].foreign
          /\ job[j].fileId # 0 => job[j].fileId \in usedIds
          /\ Succeeded(j) =>
                Result(j).obfuscatedCode = Transform(job[j].code.s, job[j].command.preset)

C9_Witness ==
    \E j \in Jobs, o \in Jobs :
        /\ j # o
        /\ Succeeded(j) /\ Succeeded(o)
        /\ job[j].code # job[o].code
        /\ Did(o, "write:ok") /\ Did(j, "write:ok")

NormalizedTier(v) == IF IsTier(v) THEN v.s[1] ELSE "Strong"

\* C11: a successful result reports the normalized caller-facing tier (the
\* submitted tier when it is one of the four, Strong otherwise), not the
\* preset the tool ran with.
C11_ReportsCallerTier ==
    \A j \in Jobs : Succeeded(j) => Result(j).preset = NormalizedTier(job[j].preset)

C11_Witness ==
    \E j \in Jobs :
        /\ Succeeded(j) /\ job[j].preset = Str(<<"Maximum">>)
        /\ Result(j).preset = "Maximum"
        /\ job[j].command.preset = "Strong"

\* The tool preset of each tier, as a table.
ToolPresetOf(tier) ==
    CASE tier = "Weak" -> "Weak"
      [] tier = "Medium" -> "Medium"
      [] tier = "Strong" -> "Strong"
      [] tier = "Maximum" -> "Strong"

\* C12: the preset on the tool's command line is the table's entry for the
\* job's normalized tier: Weak, Medium and Strong map to themselves, Maximum
\* maps to Strong.
C12_PresetTable ==
    \A j \in Jobs : job[j].command # NoCommand =>
        job[j].command.preset = ToolPresetOf(NormalizedTier(job[j].preset))

C12_Witness ==
    \E j \in Jobs :
        /\ job[j].pc = "exec" /\ job[j].preset = Str(<<"Maximum">>)
        /\ job[j].validatedPreset = "Maximum"
        /\ job[j].command.preset = "Strong"

\* C13: the cache is empty at process start; a step never takes it from a
\* path back to empty; and the step in which a job with valid source text
\* reaches the interpreter check starts a resolution exactly when the cache
\* is empty in that step, so a job that starts after the cache holds a path
\* runs no probe and no search.
C13_CachePopulatedOnce ==
    /\ [](boot.pc = "mkdir" => cachedLuaPath = Null)
    /\ [][/\ cachedLuaPath # Null => cachedLuaPath' # Null
          /\ \A j \in Jobs :
                (job[j].pc = "idle" /\ job'[j].pc # "idle" /\ ~EmptyOrNotText(job'[j].code)) =>
                    /\ (job'[j].pc = "resolving") <=> (cachedLuaPath = Null)
                    /\ cachedLuaPath # Null =>
                          /\ job'[j].pc = "writing"
                          /\ job'[j].k = 0
                          /\ job'[j].resolved = Null
          /\ \A j \in Jobs :
                (job'[j].pc = "resolving" /\ job[j].pc # "resolving") =>
                    (job[j].pc = "idle" /\ cachedLuaPath = Null)
          /\ \A j \in Jobs :
                (job'[j].resolved # job[j].resolved /\ job'[j].resolved # Null) =>
                    job[j].pc = "resolving"]_vars

C13_Witness ==
    \E j \in Jobs, o \in Jobs :
        /\ j # o
        /\ Did(j, "resolve:ok") /\ job[j].resolved # Null
        /\ Did(o, "resolve:cached") /\ job[o].resolved = Null
        /\ cachedLuaPath # Null

\* C14: when several jobs find the cache empty and resolve concurrently,
\* every write stores the same path: the cache value never changes once it is
\* non-empty, and a job that resolved runs the tool with the path its own
\* resolution returned.
C14_SameInterpreterPath ==
    [][/\ cachedLuaPath # Null => cachedLuaPath' = cachedLuaPath
       /\ \A j \in Jobs :
             (job[j].pc = "writing" /\ job'[j].pc = "exec" /\ job[j].resolved # Null) =>
                 job'[j].command.lua = job[j].resolved]_vars

\* C15: the step that completes ensureTempDir lets startup go on when the
\* temp directory is in place (created or already there), and stops startup
\* when the directory could not be created.
C15_MkdirFailureIsFatal ==
    [][(boot.pc = "mkdir" /\ boot'.pc # "mkdir") =>
          /\ tempDir' => boot'.pc = "resolve"
          /\ ~tempDir' => boot'.pc \notin {"resolve", "listening"}]_vars

\* C16: the release deletes the two paths independently: an output file that
\* exists when the release runs is deleted whether or not the input file
\* exists and whether or not deleting the input raised an error, so an output
\* file still there when the result is returned is one whose own deletion
\* was attempted and refused.
C16_IndependentDeletion ==
    \A j \in Jobs :
        (Done(j) /\ job[j].releases = 1 /\ FileExists(OutputFile(job[j].fileId))) =>
            Did(j, "unlink_out:error")

\* C17: an error raised by the cleanup never changes the job's outcome: after
\* a successful read the job still answers success with the text that was
\* read, and after a failure of the write, the tool or the read the answer's
\* message is made from that failure's error.
C17_CleanupErrorsSwallowed ==
    \A j \in Jobs :
        (Done(j) /\ (Did(j, "unlink_in:error") \/ Did(j, "unlink_out:error"))) =>
            /\ Len(job[j].responses) = 1
            /\ IF Did(j, "read:ok")
               THEN /\ Succeeded(j)
                    /\ Result(j).obfuscatedCode = job[j].obfuscatedCode
                    /\ Result(j).obfuscatedCode = Transform(job[j].code.s, job[j].command.preset)
               ELSE /\ Failed(j)
                    /\ job[j].cause \in {"write", "exit", "timeout", "overflow", "read"}
                    /\ job[j].error # NoError
                    /\ Result(j).error = <<"Obfuscation failed: ">> \o ErrorMessage(job[j].error)
                    /\ ~\E i \in 1..Len(Result(j).error) :
                           Result(j).error[i] = "ENOENT: no such file or directory, unlink"

C17_Witness ==
    \E j \in Jobs :
        /\ Succeeded(j) /\ Did(j, "read:ok") /\ Did(j, "unlink_in:error")
        /\ FileExists(InputFile(job[j].fileId))

\* The steps a job's history names, by kind.
StepKind ==
    [t \in {"validate"} |-> "validate"] @@ [t \in {"normalize"} |-> "normalize"]
    @@ [t \in {"resolve:cached", "resolve:ok", "resolve:error"} |-> "interpreter"]
    @@ [t \in {"allocate"} |-> "allocate"]
    @@ [t \in {"write:ok", "write:error"} |-> "write"]
    @@ [t \in {"exec:ok", "exec:error"} |-> "invoke"]
    @@ [t \in {"read:ok", "read:error"} |-> "read"]
    @@ [t \in {"unlink_in:ok", "unlink_in:error"} |-> "release_in"]
    @@ [t \in {"unlink_out:ok", "unlink_out:error"} |-> "release_out"]
    @@ [t \in {"respond"} |-> "return"]

\* The position of each kind of step in an order of the kinds.
PositionIn(order) ==
    [kind \in {order[i] : i \in 1..Len(order)} |->
        CHOOSE i \in 1..Len(order) : order[i] = kind]

\* The order of the claim as stated, and the order of the handler's code.
StatedOrder ==
    PositionIn(<<"validate", "normalize", "allocate", "write", "interpreter",
                 "invoke", "read", "release_in", "release_out", "return">>)
HandlerOrder ==
    PositionIn(<<"validate", "normalize", "interpreter", "allocate", "write",
                 "invoke", "read", "release_in", "release_out", "return">>)

\* Every job's history runs through the kinds of step in the given order,
\* each kind at most once.
FollowsOrder(position) ==
    \A j \in Jobs : \A a \in 1..(Len(job[j].trace) - 1) :
        position[StepKind[job[j].trace[a]]] < position[StepKind[job[j].trace[a + 1]]]

\* The steps in a job's history.
StepsOf(j) == {job[j].trace[i] : i \in 1..Len(job[j].trace)}

\* C18 as stated: every job validates, normalizes the tier, allocates its
\* workspace and writes the input, ensures the interpreter, invokes the tool,
\* reads the output, releases and returns, in that order: allocation comes
\* before the interpreter resolution.
C18_AllocateThenResolve == FollowsOrder(StatedOrder)

\* C18 amended: every job validates, normalizes the tier, ensures the
\* interpreter, allocates its workspace and writes the input, invokes the
\* tool, reads the output, releases and returns, in that order; no step runs
\* without the one before it having succeeded, and a successful job has
\* read the output before the release and has been through the release
\* before its result is returned.
C18_ResolveThenAllocate ==
    /\ FollowsOrder(HandlerOrder)
    /\ \A j \in Jobs : LET did == StepsOf(j) IN
          /\ job[j].trace # <<>> => job[j].trace[1] = "validate"
          /\ "allocate" \in did => ("resolve:cached" \in did \/ "resolve:ok" \in did)
          /\ ("exec:ok" \in did \/ "exec:error" \in did) => "write:ok" \in did
          /\ ("read:ok" \in did \/ "read:error" \in did) => "exec:ok" \in did
          /\ ("unlink_out:ok" \in did \/ "unlink_out:error" \in did) => "unlink_in:ok" \in did
          /\ Succeeded(j) =>
                /\ "read:ok" \in did
                /\ "unlink_in:ok" \in did \/ "unlink_in:error" \in did
                /\ job[j].trace[Len(job[j].trace)] = "respond"

C18_Witness ==
    \E j \in Jobs :
        /\ Succeeded(j)
        /\ job[j].trace = <<"validate", "normalize", "resolve:ok", "allocate", "write:ok",
                            "exec:ok", "read:ok", "unlink_in:ok", "unlink_out:ok", "respond">>

\* C19: a job starts the tool at most once and sees at most one invocation
\* complete; after a failed invocation the job only releases and answers
\* Failed: no second invocation, no interpreter resolution, no read.
C19_SingleInvocation ==
    \A j \in Jobs :
        LET t == job[j].trace
            n == Len(t)
        IN \A i \in 1..n :
              /\ t[i] = "write:ok" => \A m \in (i + 1)..n : t[m] # "write:ok"
              /\ t[i] \in {"exec:ok", "exec:error"} =>
                    \A m \in (i + 1)..n : t[m] \notin {"write:ok", "exec:ok", "exec:error"}
              /\ t[i] = "exec:error" =>
                    /\ \A m \in (i + 1)..n :
                          t[m] \in {"unlink_in:ok", "unlink_in:error",
                                    "unlink_out:ok", "unlink_out:error", "respond"}
                    /\ job[j].pc \in {"c_unlink_in", "c_unlink_out", "done"}
                    /\ Done(j) => (Failed(j) /\ job[j].cause \in {"exit", "timeout", "overflow"})

C19_Witness ==
    \E j \in Jobs :
        /\ Failed(j) /\ job[j].cause = "overflow"
        /\ Times(j, "exec:error") = 1 /\ Times(j, "write:ok") = 1
        /\ job[j].trace[Len(job[j].trace)] = "respond"

\* The candidates in the order they are to be probed, and what a search that
\* found something returns.
Candidates == << <<"lua">>, <<"lua5.1">>, <<"/nix/store/lua-5.1.5/bin/lua">> >>
FoundBySearch == { <<"/nix/store/found-lua-5.1/bin/lua">> }

\* One step of a resolution that stands at position k (1..3 a candidate's
\* probe, 4 the search): it is still running afterwards at k2, or it returned
\* the path `result`, or it failed with interpreter-not-found.
ResolutionStep(k, running, k2, returned, result, notFound) ==
    /\ k \in 1..(Len(Candidates) + 1)
    /\ running \/ returned \/ notFound
    /\ running => (k <= Len(Candidates) /\ k2 = k + 1)
    /\ returned => result = (IF k <= Len(Candidates) THEN Candidates[k]
                             ELSE CHOOSE p \in FoundBySearch : TRUE)
    /\ notFound => k = Len(Candidates) + 1

\* C20: a resolution probes the candidates in their fixed order, starting
\* with the first and moving to the next only after a failed probe; it
\* returns the candidate whose probe succeeded without probing a later one;
\* the search runs only after every candidate's probe failed; and the
\* resolution fails only from the search, with interpreter-not-found.
C20_ProbeOrder ==
    [][/\ (boot.pc # "resolve" /\ boot'.pc = "resolve") => boot'.k = 1
       /\ (boot.pc = "resolve" /\ boot' # boot) =>
             ResolutionStep(boot.k, boot'.pc = "resolve", boot'.k,
                            boot'.pc = "listening" /\ cachedLuaPath' # Null, cachedLuaPath',
                            boot'.pc = "listening" /\ cachedLuaPath' = Null)
       /\ \A j \in Jobs :
             /\ (job[j].pc # "resolving" /\ job'[j].pc = "resolving") => job'[j].k = 1
             /\ (job[j].pc = "resolving" /\ job'[j] # job[j]) =>
                   /\ ResolutionStep(job[j].k, job'[j].pc = "resolving", job'[j].k,
                                     job'[j].pc = "writing", job'[j].resolved,
                                     job'[j].pc = "done")
                   /\ job'[j].pc = "writing" =>
                         (cachedLuaPath' = job'[j].resolved /\ Did(j, "resolve:ok")')
                   /\ job'[j].pc = "done" =>
                         /\ UNCHANGED cachedLuaPath
                         /\ job'[j].cause = "notfound"
                         /\ job'[j].responses =
                               << [status |-> 500, success |-> FALSE,
                                   error |-> <<"Lua interpreter not found. Please ensure Lua 5.1 is installed.">>,
                                   obfuscatedCode |-> <<>>, preset |-> ""] >>]_vars

C20_Witness ==
    \E j \in Jobs :
        /\ job[j].resolved \in FoundBySearch
        /\ cachedLuaPath = job[j].resolved
        /\ Did(j, "resolve:ok") /\ job[j].pc = "writing"

\* C21: under a fair event loop every job that is in flight eventually
\* returns a result, even when its subprocess never ends on its own, because
\* the invocation's timer ends it; and while a job waits for its subprocess,
\* every other job in flight has a step of its own that it can take.
C21_EveryJobReturns ==
    /\ \A j \in Jobs : (job[j].pc \notin {"idle", "done"}) ~> (Done(j) /\ Len(job[j].responses) = 1)
    /\ [][\A j \in Jobs, o \in Jobs :
            (j # o /\ job[j].pc = "exec" /\ job[o].pc \notin {"idle", "done"}) =>
                ENABLED <<Completion(o)>>_vars]_vars

C21_Witness ==
    \E j \in Jobs, o \in Jobs :
        /\ j # o
        /\ job[j].pc = "exec"
        /\ Failed(o) /\ job[o].cause = "timeout"

\* C22: a job that has built its tool command built it with a non-empty
\* interpreter path, one that a resolution returned; and a job whose own
\* resolution failed has answered with that failure and has allocated
\* nothing, written nothing and built no command, whatever the other jobs did
\* meanwhile.
C22_NoCommandWithoutInterpreter ==
    \A j \in Jobs :
        /\ job[j].command.lua # <<>> \/ job[j].command.preset = ""
        /\ job[j].pc \in {"exec", "reading"} =>
              /\ job[j].command.lua # <<>>
              /\ \/ \E i \in 1..Len(Candidates) : job[j].command.lua = Candidates[i]
                 \/ job[j].command.lua \in FoundBySearch
        /\ (\E i \in 1..Len(job[j].trace) : job[j].trace[i] = "resolve:error") =>
              /\ Failed(j)
              /\ Result(j).status = 500
              /\ job[j].command.preset = "" /\ job[j].command.lua = <<>>
              /\ job[j].fileId = 0
              /\ job[j].trace = <<"validate", "normalize", "resolve:error", "respond">>

C22_Witness ==
    \E j \in Jobs, o \in Jobs :
        /\ j # o
        /\ Failed(j) /\ job[j].cause = "notfound" /\ job[j].command = NoCommand
        /\ job[o].pc = "exec" /\ job[o].command.lua \in FoundBySearch
        /\ cachedLuaPath \in FoundBySearch

\* The pieces of text a command line is made of, the job's identifier apart.
CommandTexts(c) ==
    {c.preset, c.input.dir, c.input.base[1], c.input.ext}
        \cup {c.lua[i] : i \in 1..Len(c.lua)}

\* C23: whatever source text and tier value a request carries, the preset on
\* its tool command line is Weak, Medium or Strong, the input path on it is
\* the scratch name made from the job's own identifier, and neither the tier
\* value as submitted (unless it is one of those three names) nor the source
\* text is any part of the command line.
C23_CommandLineFromFixedParts ==
    \A j \in Jobs : job[j].command.preset # "" =>
        /\ job[j].command.preset \in {"Weak", "Medium", "Strong"}
        /\ job[j].fileId \in 1..MaxRequests
        /\ job[j].command.input =
              [dir |-> "temp", base |-> <<"input_", job[j].fileId>>, ext |-> ".lua"]
        /\ \A i \in 1..Len(job[j].preset.s) :
              job[j].preset.s[i] \in CommandTexts(job[j].command) =>
                  job[j].preset.s[i] \in {"Weak", "Medium", "Strong"}
        /\ \A i \in 1..Len(job[j].code.s) :
              job[j].code.s[i] \notin CommandTexts(job[j].command)

C23_Witness ==
    \E j \in Jobs :
        /\ job[j].pc = "exec"
        /\ job[j].preset = Str(<<"bogus">>) /\ job[j].code = Str(<<"b">>)
        /\ job[j].command.preset = "Strong"
        /\ job[j].command.input.base = <<"input_", job[j].fileId>>

====
